---- MODULE Spec2Model ----
(***************************************************************************)
(* Model of arjf/auto-feedback: the sentiment engine of app/model.py and   *)
(* the Flask boundary of app/main.py with its in-process history list.     *)
(*                                                                         *)
(* Numbers.  Python floats are modelled in fixed point.  A polarity, a     *)
(* subjectivity or a pretrained score is an integer number of 1e-5 units   *)
(* (Unit = 1.0).  An unrounded confidence or percentage is kept in 1e-3    *)
(* percent, so that round(x, 2) and round(x, 3) are real conversions.      *)
(* Reported values: confidence and percentages in 1e-2 percent (hundredths)*)
(* and polarity, subjectivity and score in 1e-3 (thousandths).             *)
(*                                                                         *)
(* Text.  A str is a sequence of one-character strings.                    *)
(***************************************************************************)
EXTENDS Integers, Sequences, FiniteSets, TLC

VARIABLES
    TRANSFORMERS_AVAILABLE, \* model.py: did "from transformers import pipeline" succeed
    analysis_history,       \* main.py: the module-level history list
    now,                    \* what the next datetime.now() returns; every read advances it
    workload,               \* SpecLong: the cyclic request pattern the client replays
    sent,                   \* SpecLong: the number of requests the client has sent
    resp,                   \* the last response the boundary returned
    recorded,               \* every entry ever appended to analysis_history, in order
    call,                   \* the last call of analyze_sentiment: inputs, result, trace
    model_loads,            \* the calls of pipeline(...) made since the process started
    threads,                \* SpecConc: the server threads inside analyze(), their position and locals
    reader                  \* SpecConc: the server thread inside history() or stats()

vars ==
    <<TRANSFORMERS_AVAILABLE, analysis_history, now, workload, sent, resp, recorded,
      call, model_loads, threads, reader>>

-----------------------------------------------------------------------------
(* Bounds of the model *)

\* number of analyses a run of Spec records, each request chosen freely
MaxRequests == 5
\* number of /analyze requests the client of SpecLong sends
LongRequests == 103
\* longest cyclic request pattern a run of SpecLong replays
MaxPattern == 2
\* number of /analyze requests in flight at once in SpecConc
MaxThreads == 2

-----------------------------------------------------------------------------
(* Program constants *)

\* main.py:122  len(analysis_history) > 100
Capacity == 100
\* main.py:114  text[:100]
ExcerptLen == 100
\* main.py:141  min(limit, 100)
MaxLimit == 100
\* main.py:140  request.args.get("limit", 50, type=int)
DefaultLimit == 50
\* model.py:104  max_length = 512
max_length == 512

\* 1.0 in the fixed-point unit of polarity, subjectivity and score (1e-5)
Unit == 100 * 1000

-----------------------------------------------------------------------------
(* Arithmetic *)

Abs(x) == IF x < 0 THEN -x ELSE x

Min2(a, b) == IF a <= b THEN a ELSE b

\* num/den for num >= 0, den > 0, rounded to the nearest integer, ties to even:
\* what Python's round() does to a value that sits exactly on a tie
RoundDivNat(num, den) ==
    LET q == num \div den
        r == num % den
    IN  IF 2 * r > den THEN q + 1
        ELSE IF 2 * r < den THEN q
        ELSE IF q % 2 = 0 THEN q ELSE q + 1

\* the same for any sign of num (rounding is symmetric about zero)
RoundDiv(num, den) ==
    IF num >= 0 THEN RoundDivNat(num, den) ELSE -RoundDivNat(-num, den)

\* round(x, 2) of a percentage x held in 1e-3 percent: the result in 1e-2 percent
Round2(x) == RoundDiv(x, 10)

\* round(x, 3) of a value x held in 1e-5: the result in 1e-3
Round3(x) == RoundDiv(x, 100)

-----------------------------------------------------------------------------
(* Text: str operations *)

\* the characters str.strip() and str.split() treat as whitespace
Whitespace == {" ", "\n", "\t"}

\* text.strip()
Strip(text) ==
    LET n == Len(text)
        leading == Cardinality({i \in 1..n : \A j \in 1..i : text[j] \in Whitespace})
        trailing == Cardinality({i \in 1..n : \A j \in i..n : text[j] \in Whitespace})
    IN  IF leading = n THEN <<>> ELSE SubSeq(text, leading + 1, n - trailing)

\* text[:n]
Prefix(text, n) == SubSeq(text, 1, Min2(n, Len(text)))

\* the positions where a word of text.split() starts, in order
WordStarts(text) ==
    LET IsStart(i) ==
            /\ text[i] \notin Whitespace
            /\ (i = 1 \/ text[i - 1] \in Whitespace)
    IN  SelectSeq([i \in 1..Len(text) |-> i], IsStart)

\* len(text.split())
WordCount(text) == Len(WordStarts(text))

\* " ".join(text.split()): every whitespace run becomes one space, none at the ends
JoinWords(text) ==
    LET pairs == [i \in 1..Len(text) |->
                    <<text[i], IF i = 1 THEN " " ELSE text[i - 1]>>]
        IsKept(p) == p[1] \notin Whitespace \/ p[2] \notin Whitespace
        kept == SelectSeq(pairs, IsKept)
    IN  Strip([i \in 1..Len(kept) |->
                 IF kept[i][1] \in Whitespace THEN " " ELSE kept[i][1]])

\* " ".join(text.split()[:n])
JoinFirstWords(text, n) ==
    LET starts == WordStarts(text)
    IN  IF Len(starts) <= n THEN JoinWords(text)
        ELSE JoinWords(SubSeq(text, 1, starts[n + 1] - 1))

-----------------------------------------------------------------------------
(* The Lexicon scorer: TextBlob(text).sentiment                            *)
(*                                                                         *)
(* TextBlob averages the lexicon scores of the words it knows and gives    *)
(* (0, 0) when it knows none.  The lexicon here has one-letter words whose *)
(* scores sit on, next to and far from the classification thresholds.      *)

\* the words the lexicon knows
Lexicon == {"a", "g", "o", "m", "e", "c", "n", "f", "b", "t"}

\* polarity of a lexicon word, in 1e-5
LexiconPolarity(w) ==
    CASE w = "a" -> Unit
      [] w = "g" -> 70000
      [] w = "o" -> 50000
      [] w = "e" -> 10040
      [] w = "m" -> 10000
      [] w = "c" -> 5000
      [] w = "n" -> -10000
      [] w = "f" -> -10040
      [] w = "b" -> -70000
      [] w = "t" -> -Unit

\* subjectivity of a lexicon word, in 1e-5
LexiconSubjectivity(w) ==
    CASE w = "a" -> Unit
      [] w = "g" -> 60000
      [] w = "o" -> 50000
      [] w = "e" -> 30000
      [] w = "m" -> Unit
      [] w = "c" -> 50000
      [] w = "n" -> 40000
      [] w = "f" -> 30000
      [] w = "b" -> 66667
      [] w = "t" -> Unit

RECURSIVE SumOver(_, _)
\* the sum of f[w] over the w in W
SumOver(W, f) ==
    IF W = {} THEN 0
    ELSE LET w == CHOOSE v \in W : TRUE
         IN  f[w] + SumOver(W \ {w}, f)

\* TextBlob(text).sentiment: (polarity, subjectivity), each the average over the
\* words of text that are in the lexicon, in 1e-5
TextBlobSentiment(text) ==
    LET n == Len(text)
        \* every character with the one before and the one after it
        around == [i \in 1..n |->
                      <<IF i = 1 THEN " " ELSE text[i - 1], text[i],
                        IF i = n THEN " " ELSE text[i + 1]>>]
        IsKnownWord(t) ==
            t[1] \in Whitespace /\ t[3] \in Whitespace /\ t[2] \in Lexicon
        known == SelectSeq(around, IsKnownWord)
        occurrences == [w \in Lexicon |->
                           LET Is(t) == t[2] = w IN Len(SelectSeq(known, Is))]
        pol == [w \in Lexicon |-> occurrences[w] * LexiconPolarity(w)]
        subj == [w \in Lexicon |-> occurrences[w] * LexiconSubjectivity(w)]
    IN  IF known = <<>> THEN [polarity |-> 0, subjectivity |-> 0]
        ELSE [polarity |-> RoundDiv(SumOver(Lexicon, pol), Len(known)),
              subjectivity |-> RoundDiv(SumOver(Lexicon, subj), Len(known))]

-----------------------------------------------------------------------------
(* The Sentiment Engine: app/model.py *)

\* polarity > 0.1 and polarity < -0.1 compare against this, in 1e-5
Threshold == Unit \div 10

\* analyze_with_textblob with ">=" in place of ">" in "polarity > 0.1"
analyze_with_textblob_GE(text) ==
    LET blob == TextBlobSentiment(text)
        polarity == blob.polarity
    IN  [sentiment |-> IF polarity >= Threshold THEN "Positive"
                       ELSE IF polarity < -Threshold THEN "Negative"
                       ELSE "Neutral",
         polarity |-> Round3(polarity),
         subjectivity |-> Round3(blob.subjectivity),
         confidence |-> Round2(IF polarity >= Threshold THEN Min2(polarity, Unit)
                               ELSE IF polarity < -Threshold
                                    THEN Min2(Abs(polarity), Unit)
                               ELSE Unit - Abs(polarity)),
         model |-> "TextBlob"]

\* analyze_with_textblob with abs() left out of the Negative branch
analyze_with_textblob_NoAbs(text) ==
    LET blob == TextBlobSentiment(text)
        polarity == blob.polarity
    IN  [sentiment |-> IF polarity > Threshold THEN "Positive"
                       ELSE IF polarity < -Threshold THEN "Negative"
                       ELSE "Neutral",
         polarity |-> Round3(polarity),
         subjectivity |-> Round3(blob.subjectivity),
         confidence |-> Round2(IF polarity > Threshold THEN Min2(polarity, Unit)
                               ELSE IF polarity < -Threshold
                                    THEN Min2(polarity, Unit)
                               ELSE Unit - Abs(polarity)),
         model |-> "TextBlob"]

\* analyze_with_textblob with round(polarity, 2) in place of round(polarity, 3)
analyze_with_textblob_Round2(text) ==
    LET blob == TextBlobSentiment(text)
        polarity == blob.polarity
    IN  [sentiment |-> IF polarity > Threshold THEN "Positive"
                       ELSE IF polarity < -Threshold THEN "Negative"
                       ELSE "Neutral",
         polarity |-> RoundDiv(polarity, 1000) * 10,
         subjectivity |-> Round3(blob.subjectivity),
         confidence |-> Round2(IF polarity > Threshold THEN Min2(polarity, Unit)
                               ELSE IF polarity < -Threshold
                                    THEN Min2(Abs(polarity), Unit)
                               ELSE Unit - Abs(polarity)),
         model |-> "TextBlob"]

\* SentimentAnalyzer.analyze_with_textblob: the result dict
analyze_with_textblob(text) ==
    LET blob == TextBlobSentiment(text)
        polarity == blob.polarity
        subjectivity == blob.subjectivity
        \* polarity * 100 is, in 1e-3 percent, the number polarity is in 1e-5
        sentiment == IF polarity > Threshold THEN "Positive"
                     ELSE IF polarity < -Threshold THEN "Negative"
                     ELSE "Neutral"
        confidence == IF polarity > Threshold THEN Min2(polarity, Unit)
                      ELSE IF polarity < -Threshold THEN Min2(Abs(polarity), Unit)
                      ELSE Unit - Abs(polarity)
    IN  [sentiment |-> sentiment,
         polarity |-> Round3(polarity),
         subjectivity |-> Round3(subjectivity),
         confidence |-> Round2(confidence),
         model |-> "TextBlob"]

\* __init__ that takes the pretrained model as loaded whatever the import and the
\* load did
SentimentAnalyzer_AlwaysLoaded(model_type, loadOK) ==
    IF model_type = "transformers"
    THEN [model_type |-> "transformers", transformer_model |-> TRUE, loads |-> 1]
    ELSE [model_type |-> model_type, transformer_model |-> FALSE, loads |-> 0]

\* SentimentAnalyzer.__init__(model_type); loadOK: does pipeline(...) return a model.
\* loads counts the calls of pipeline(...).
SentimentAnalyzer(model_type, loadOK) ==
    IF model_type = "transformers"
    THEN IF TRANSFORMERS_AVAILABLE
         THEN IF loadOK
              THEN [model_type |-> "transformers", transformer_model |-> TRUE,
                    loads |-> 1]
              ELSE [model_type |-> "textblob", transformer_model |-> FALSE,
                    loads |-> 1]
         ELSE [model_type |-> "textblob", transformer_model |-> FALSE, loads |-> 0]
    ELSE [model_type |-> model_type, transformer_model |-> FALSE, loads |-> 0]

\* analyze_with_transformers that calls the failing model a second time before it
\* falls back
analyze_with_transformers_Retry(self, text, out) ==
    IF ~self.transformer_model
    THEN [result |-> analyze_with_textblob(text), invoked |-> 0, scored |-> <<text>>]
    ELSE LET text1 == IF WordCount(text) > max_length
                      THEN JoinFirstWords(text, max_length)
                      ELSE text
         IN  IF out.ok
             THEN [result |->
                       [sentiment |-> IF out.label = "POSITIVE" THEN "Positive"
                                      ELSE IF out.label = "NEGATIVE" THEN "Negative"
                                      ELSE "Neutral",
                        confidence |-> Round2(out.score),
                        score |-> Round3(out.score),
                        model |-> "DistilBERT"],
                   invoked |-> 1, scored |-> <<>>]
             ELSE [result |-> analyze_with_textblob(text1), invoked |-> 2,
                   scored |-> <<text1>>]

\* SentimentAnalyzer.analyze_with_transformers(text).  out is what the call
\* self.transformer_model(text) does: [ok |-> FALSE] when it raises, else
\* [ok |-> TRUE, label |-> .., score |-> ..].  The value is the returned dict
\* (result), the number of calls of the pretrained model (invoked) and the
\* texts handed to TextBlob (scored).
analyze_with_transformers(self, text, out) ==
    IF ~self.transformer_model
    THEN [result |-> analyze_with_textblob(text), invoked |-> 0, scored |-> <<text>>]
    ELSE LET \* the try block rebinds text before the model is called
             text1 == IF WordCount(text) > max_length
                      THEN JoinFirstWords(text, max_length)
                      ELSE text
         IN  IF out.ok
             THEN [result |->
                       [sentiment |-> IF out.label = "POSITIVE" THEN "Positive"
                                      ELSE IF out.label = "NEGATIVE" THEN "Negative"
                                      ELSE "Neutral",
                        confidence |-> Round2(out.score),
                        score |-> Round3(out.score),
                        model |-> "DistilBERT"],
                   invoked |-> 1, scored |-> <<>>]
             ELSE \* except Exception: the handler sees the rebound text
                  [result |-> analyze_with_textblob(text1), invoked |-> 1,
                   scored |-> <<text1>>]

\* analyze with "if not text" alone as its guard (no strip)
analyze_NoStrip(self, text, out) ==
    IF text = <<>>
    THEN [result |-> [error |-> "Empty text provided", sentiment |-> "Neutral",
                      confidence |-> 0],
          invoked |-> 0, scored |-> <<>>]
    ELSE IF self.model_type = "transformers"
         THEN analyze_with_transformers(self, text, out)
         ELSE [result |-> analyze_with_textblob(text), invoked |-> 0,
               scored |-> <<text>>]

\* SentimentAnalyzer.analyze(text)
analyze(self, text, out) ==
    IF Strip(text) = <<>>
    THEN [result |-> [error |-> "Empty text provided", sentiment |-> "Neutral",
                      confidence |-> 0],
          invoked |-> 0, scored |-> <<>>]
    ELSE IF self.model_type = "transformers"
         THEN analyze_with_transformers(self, text, out)
         ELSE [result |-> analyze_with_textblob(text), invoked |-> 0,
               scored |-> <<text>>]

\* analyze_sentiment(text, model_type): a new analyzer for every call
analyze_sentiment(text, model_type, loadOK, out) ==
    LET analyzer == SentimentAnalyzer(model_type, loadOK)
        r == analyze(analyzer, text, out)
    IN  [result |-> r.result, invoked |-> r.invoked, scored |-> r.scored,
         loads |-> analyzer.loads]

-----------------------------------------------------------------------------
(* The Boundary Service: app/main.py *)

\* str.lower() on the model names a client sends
Lower(s) ==
    CASE s = "TextBlob" -> "textblob"
      [] s = "TRANSFORMERS" -> "transformers"
      [] OTHER -> s

\* seq[start:] for any integer start, as Python slices
SliceFrom(seq, start) ==
    LET n == Len(seq)
        from == IF start < 0 THEN (IF n + start < 0 THEN 0 ELSE n + start)
                ELSE Min2(start, n)
    IN  SubSeq(seq, from + 1, n)

\* NewEntry that stores the whole text in place of text[:100]
NewEntry_Whole(text, result, timestamp) ==
    [text |-> text,
     sentiment |-> result.sentiment,
     confidence |-> result.confidence,
     timestamp |-> timestamp]

\* the dict analyze() appends to analysis_history
NewEntry(text, result, timestamp) ==
    [text |-> Prefix(text, ExcerptLen),
     sentiment |-> result.sentiment,
     confidence |-> result.confidence,
     timestamp |-> timestamp]

\* Record that never evicts
Record_NoEvict(history, entry) == Append(history, entry)

\* Record that evicts with pop() (the newest entry) in place of pop(0)
Record_PopLast(history, entry) ==
    LET appended == Append(history, entry)
    IN  IF Len(appended) > Capacity
        THEN SubSeq(appended, 1, Len(appended) - 1)
        ELSE appended

\* analyze(): analysis_history.append(entry), then pop(0) when longer than 100
Record(history, entry) ==
    LET appended == Append(history, entry)
    IN  IF Len(appended) > Capacity THEN Tail(appended) ELSE appended

\* no call of the engine
NoCall == [phase |-> "none"]

\* a call of the engine that has not run yet
Pending(via, text, model_type, loadOK, out) ==
    [phase |-> "pending", via |-> via, text |-> text, model_type |-> model_type,
     loadOK |-> loadOK, out |-> out]

\* a call of the engine that has returned r
Done(via, text, model_type, loadOK, out, r) ==
    [phase |-> "done", via |-> via, text |-> text, model_type |-> model_type,
     loadOK |-> loadOK, out |-> out,
     result |-> r.result, invoked |-> r.invoked, scored |-> r.scored,
     loads |-> r.loads]

\* analyze() once the engine has returned r: the response, the appended entry
\* and the eviction
analyze_success(text, model_type, req, r, history, timestamp) ==
    LET result == [text |-> text, timestamp |-> timestamp] @@ r.result
        entry == NewEntry(text, result, timestamp)
    IN  [status |-> 200, body |-> result, entry |-> entry,
         history |-> Record(history, entry),
         call |-> Done("analyze_sentiment", text, model_type,
                       req.loadOK, req.out, r)]

\* analyze_text without the "if not text" check: an empty text goes on to the
\* engine
analyze_text_NoCheck(text, given, req, history, timestamp) ==
    analyze_success(text,
                    IF given \in {"textblob", "transformers"}
                    THEN given ELSE "textblob",
                    req,
                    analyze_sentiment(text,
                                      IF given \in {"textblob", "transformers"}
                                      THEN given ELSE "textblob",
                                      req.loadOK, req.out),
                    history, timestamp)

\* analyze() from the empty-text check on: text is stripped, given is the
\* lower-cased model name; a name outside the two choices becomes "textblob"
analyze_text(text, given, req, history, timestamp) ==
    IF text = <<>>
    THEN [status |-> 400, body |-> [error |-> "Empty text provided"],
          history |-> history, call |-> NoCall]
    ELSE analyze_success(text,
                         IF given \in {"textblob", "transformers"}
                         THEN given ELSE "textblob",
                         req,
                         analyze_sentiment(text,
                                           IF given \in {"textblob", "transformers"}
                                           THEN given ELSE "textblob",
                                           req.loadOK, req.out),
                         history, timestamp)

\* POST /analyze.  req: json (is there a JSON body), fields (the keys of the
\* body), text, textIsStr (is the text value a str), model, and what the
\* pretrained backend does in this request (loadOK, out).  The value: the
\* response (status, body), the history afterwards, the engine call made and,
\* with a 200, the entry appended.
analyze_handler(req, history, timestamp) ==
    IF ~req.json \/ req.fields = {}
    THEN [status |-> 400, body |-> [error |-> "No JSON data provided"],
          history |-> history, call |-> NoCall]
    ELSE IF "text" \in req.fields /\ ~req.textIsStr
    THEN \* data.get("text", "").strip() raises; except Exception answers
         [status |-> 500, body |-> [error |-> "Internal server error"],
          history |-> history, call |-> NoCall]
    ELSE analyze_text(Strip(IF "text" \in req.fields THEN req.text ELSE <<>>),
                      Lower(IF "model" \in req.fields THEN req.model
                            ELSE "textblob"),
                      req, history, timestamp)

\* request.args.get("limit", 50, type=int): arg is absent, not an integer, or
\* an integer
LimitOf(arg) == IF arg.kind = "int" THEN arg.value ELSE DefaultLimit

\* GET /history
history_handler(arg, history) ==
    LET limit == Min2(LimitOf(arg), MaxLimit)
    IN  [op |-> "history", status |-> 200, arg |-> arg, count |-> Len(history),
         history |-> SliceFrom(history, -limit)]

\* the number of entries of history with the given sentiment
CountOf(history, sentiment) ==
    Cardinality({i \in 1..Len(history) : history[i].sentiment = sentiment})

RECURSIVE SumConfidence(_)
\* sum(item.get("confidence", 0) for item in analysis_history), in 1e-2 percent
SumConfidence(history) ==
    IF history = <<>> THEN 0
    ELSE Head(history).confidence + SumConfidence(Tail(history))

\* the stats of a history with total > 0 entries; divisions counts the "/ total"
StatsOf(history) ==
    LET total == Len(history)
        positive == CountOf(history, "Positive")
        negative == CountOf(history, "Negative")
        neutral == CountOf(history, "Neutral")
    IN  [total |-> total, positive |-> positive, negative |-> negative,
         neutral |-> neutral,
         positive_percentage |-> RoundDiv(positive * 100 * 100, total),
         negative_percentage |-> RoundDiv(negative * 100 * 100, total),
         neutral_percentage |-> RoundDiv(neutral * 100 * 100, total),
         average_confidence |-> RoundDiv(SumConfidence(history), total)]

\* the stats dict built from the locals of stats(): total, the three counts and
\* the sum of the confidences
StatsFrom(total, positive, negative, neutral, confidence) ==
    [total |-> total, positive |-> positive, negative |-> negative,
     neutral |-> neutral,
     positive_percentage |-> RoundDiv(positive * 100 * 100, total),
     negative_percentage |-> RoundDiv(negative * 100 * 100, total),
     neutral_percentage |-> RoundDiv(neutral * 100 * 100, total),
     average_confidence |-> RoundDiv(confidence, total)]

\* stats_handler without the "if not analysis_history" branch: the division by a
\* total of 0 raises and except Exception answers 500
stats_handler_NoEmptyBranch(history) ==
    IF history = <<>>
    THEN [op |-> "stats", status |-> 500, divisions |-> 1,
          body |-> [error |-> "Internal server error"]]
    ELSE [op |-> "stats", status |-> 200, divisions |-> 4,
          body |-> [stats |-> StatsOf(history)]]

\* stats_handler with the percentages taken of the capacity, not of the total
stats_handler_PerCapacity(history) ==
    IF history = <<>>
    THEN [op |-> "stats", status |-> 200, divisions |-> 0,
          body |-> [message |-> "No analysis history available",
                    stats |-> [total |-> 0, positive |-> 0, negative |-> 0,
                               neutral |-> 0]]]
    ELSE LET st == StatsOf(history)
         IN  [op |-> "stats", status |-> 200, divisions |-> 4,
              body |-> [stats |->
                  [st EXCEPT
                      !.positive_percentage =
                          RoundDiv(st.positive * 100 * 100, Capacity),
                      !.negative_percentage =
                          RoundDiv(st.negative * 100 * 100, Capacity),
                      !.neutral_percentage =
                          RoundDiv(st.neutral * 100 * 100, Capacity)]]]

\* GET /stats
stats_handler(history) ==
    IF history = <<>>
    THEN [op |-> "stats", status |-> 200, divisions |-> 0,
          body |-> [message |-> "No analysis history available",
                    stats |-> [total |-> 0, positive |-> 0, negative |-> 0,
                               neutral |-> 0]]]
    ELSE [op |-> "stats", status |-> 200, divisions |-> 4,
          body |-> [stats |-> StatsOf(history)]]

-----------------------------------------------------------------------------
(* Inputs of the engine *)

\* 513 words: 511 unknown words, then "g" and, past max_length, "t"
LongText ==
    [i \in 1..(2 * max_length + 1) |->
        IF i % 2 = 0 THEN " "
        ELSE IF i = 2 * max_length + 1 THEN "t"
        ELSE IF i = 2 * max_length - 1 THEN "g"
        ELSE "x"]

\* texts without a word: "", and whitespace only
BlankTexts == { <<>>, <<" ">>, <<" ", "\t", "\n">> }

\* texts with a word, with polarities on, next to and far from the thresholds
WordTexts ==
    { <<"a">>, <<"g">>, <<"e">>, <<"m">>, <<"c">>, <<"x">>, <<"n">>, <<"f">>,
      <<"b">>, <<"t">>, <<"g", "x">>,
      <<" ", "g", " ", "g", " ", "o", "\n">>,
      <<"b", " ", "b", " ", "t">>,
      <<"e", " ", "m", " ", "m", " ", "m", " ", "m", " ", "m", " ", "m", " ", "m">>,
      LongText }

EngineTexts == BlankTexts \cup WordTexts

\* the model_type values a caller passes
ModelTypes == {"textblob", "transformers", "bert"}

\* what one call of the pretrained model does: it raises, or returns label and score
Outcomes ==
    { [ok |-> FALSE, label |-> "", score |-> 0],
      [ok |-> TRUE, label |-> "POSITIVE", score |-> 99987],
      [ok |-> TRUE, label |-> "POSITIVE", score |-> Unit],
      [ok |-> TRUE, label |-> "NEGATIVE", score |-> 66665],
      [ok |-> TRUE, label |-> "NEUTRAL", score |-> 50000] }

\* no response yet
NoResp == [op |-> "none"]

\* a thread that has not entered history() or stats(): its locals unset
ReaderIdle ==
    [pc |-> "idle", kind |-> "none", arg |-> [kind |-> "absent", value |-> 0],
     count |-> 0, total |-> 0, positive |-> 0, negative |-> 0, neutral |-> 0,
     contents |-> {}]

-----------------------------------------------------------------------------
(* SpecEngine: one process, one call of the engine on any input *)

InitEngine ==
    /\ TRANSFORMERS_AVAILABLE \in BOOLEAN
    /\ analysis_history = <<>>
    /\ now = 0
    /\ workload = <<>>
    /\ sent = 0
    /\ resp = NoResp
    /\ recorded = <<>>
    /\ model_loads = 0
    /\ threads = <<>>
    /\ reader = ReaderIdle
    /\ \E via \in {"analyze_sentiment", "analyze_with_transformers"},
          text \in EngineTexts, model_type \in ModelTypes,
          loadOK \in BOOLEAN, out \in Outcomes :
            call = Pending(via, text, model_type, loadOK, out)

\* analyze_sentiment(text, model_type)
CallAnalyzeSentiment ==
    /\ call.phase = "pending"
    /\ call.via = "analyze_sentiment"
    /\ call' = Done(call.via, call.text, call.model_type, call.loadOK, call.out,
                    analyze_sentiment(call.text, call.model_type, call.loadOK,
                                      call.out))
    /\ model_loads' = model_loads + call'.loads
    /\ UNCHANGED <<TRANSFORMERS_AVAILABLE, analysis_history, now, workload, sent,
                   resp, recorded, threads, reader>>

\* SentimentAnalyzer(model_type).analyze_with_transformers(text)
CallAnalyzeWithTransformers ==
    /\ call.phase = "pending"
    /\ call.via = "analyze_with_transformers"
    /\ LET analyzer == SentimentAnalyzer(call.model_type, call.loadOK)
           r == analyze_with_transformers(analyzer, call.text, call.out)
       IN  call' = Done(call.via, call.text, call.model_type, call.loadOK, call.out,
                        [result |-> r.result, invoked |-> r.invoked,
                         scored |-> r.scored, loads |-> analyzer.loads])
    /\ model_loads' = model_loads + call'.loads
    /\ UNCHANGED <<TRANSFORMERS_AVAILABLE, analysis_history, now, workload, sent,
                   resp, recorded, threads, reader>>

NextEngine == CallAnalyzeSentiment \/ CallAnalyzeWithTransformers

SpecEngine == InitEngine /\ [][NextEngine]_vars

-----------------------------------------------------------------------------
(* Properties of the engine, checked under SpecEngine *)

\* not text or not text.strip()
IsBlank(text) == Strip(text) = <<>>

\* the pretrained backend was asked for and the analyzer could not have it
RequestedUnavailable ==
    /\ call.phase = "done"
    /\ call.model_type = "transformers"
    /\ (~TRANSFORMERS_AVAILABLE \/ ~call.loadOK)

\* the pretrained backend was there and its one call raised
InvocationFailed ==
    /\ call.phase = "done"
    /\ call.model_type = "transformers"
    /\ TRANSFORMERS_AVAILABLE /\ call.loadOK
    /\ ~call.out.ok
    /\ (call.via = "analyze_with_transformers" \/ ~IsBlank(call.text))

\* the dict of the degenerate empty-input result
EmptyResult ==
    [error |-> "Empty text provided", sentiment |-> "Neutral", confidence |-> 0]

\* C4 as stated: whenever the Pretrained backend is requested and unavailable,
\* analyze returns a result whose model field is "TextBlob".
C4_Original ==
    (RequestedUnavailable /\ call.via = "analyze_sentiment")
        => ("model" \in DOMAIN call.result /\ call.result.model = "TextBlob")

\* C4 (amended): when the Pretrained backend is requested and unavailable, analyze
\* returns for every text with a word the Lexicon result of that text, model =
\* "TextBlob", without calling the pretrained model; for a blank text it returns
\* the empty-input result, which names no backend.  A direct call of
\* analyze_with_transformers gives the Lexicon result for every text.
C4_UnavailableFallsBack ==
    RequestedUnavailable =>
        /\ call.invoked = 0
        /\ IF call.via = "analyze_sentiment" /\ IsBlank(call.text)
           THEN call.result = EmptyResult
           ELSE /\ call.result.model = "TextBlob"
                /\ call.result = analyze_with_textblob(call.text)
                /\ call.scored = <<call.text>>

\* C4 witness: a non-blank text, the import succeeded, the load failed, Lexicon used
C4_Witness ==
    /\ RequestedUnavailable
    /\ TRANSFORMERS_AVAILABLE
    /\ call.via = "analyze_sentiment"
    /\ ~IsBlank(call.text)
    /\ call.out.ok
    /\ call.result.model = "TextBlob"

\* C5: when the pretrained model is available and its call fails, analyze returns
\* a Lexicon result (model = "TextBlob"), and the pretrained model was called
\* exactly once in that call: no retry.
C5_FailureFallsBackOnce ==
    InvocationFailed =>
        /\ call.result.model = "TextBlob"
        /\ {"polarity", "subjectivity"} \subseteq DOMAIN call.result
        /\ "error" \notin DOMAIN call.result
        /\ call.invoked = 1
        /\ Len(call.scored) = 1

\* C5 witness: a failed invocation through analyze_sentiment, answered by TextBlob
C5_Witness ==
    /\ InvocationFailed
    /\ call.via = "analyze_sentiment"
    /\ call.result.model = "TextBlob"
    /\ call.invoked = 1

\* C6: for every empty or whitespace-only text and every requested backend,
\* analyze returns Neutral, confidence 0 and the empty-input marker, and calls
\* neither the pretrained model nor TextBlob.
C6_BlankText ==
    (call.phase = "done" /\ call.via = "analyze_sentiment" /\ IsBlank(call.text))
        => /\ call.result.sentiment = "Neutral"
           /\ call.result.confidence = 0
           /\ "error" \in DOMAIN call.result
           /\ call.invoked = 0
           /\ call.scored = <<>>

\* C6 witness: a whitespace-only text sent to an analyzer whose pretrained model
\* is loaded
C6_Witness ==
    /\ call.phase = "done"
    /\ call.via = "analyze_sentiment"
    /\ call.text # <<>>
    /\ IsBlank(call.text)
    /\ call.model_type = "transformers"
    /\ TRANSFORMERS_AVAILABLE /\ call.loadOK
    /\ "error" \in DOMAIN call.result

\* the call returned a Lexicon result
LexiconResult ==
    /\ call.phase = "done"
    /\ "model" \in DOMAIN call.result
    /\ call.result.model = "TextBlob"

\* the polarity (1e-5) TextBlob gave for the text the Lexicon result is about
ScoredPolarity == TextBlobSentiment(call.scored[1]).polarity

\* C7 as stated: the confidence of a Lexicon result is exactly min(p*100, 100)
\* when |p| > 0.1 and exactly 100 - |p|*100 otherwise.  (confidence is in 1e-2
\* percent, p*100 in 1e-3 percent.)
C7_Original ==
    LexiconResult =>
        LET p == ScoredPolarity
        IN  call.result.confidence * 10 =
                IF Abs(p) > Threshold THEN Min2(Abs(p), Unit) ELSE Unit - Abs(p)

\* C7 (amended): p > 0.1 gives Positive, p < -0.1 gives Negative, -0.1 <= p <= 0.1
\* (both ends included) gives Neutral; the confidence is min(|p|*100, 100), for
\* Neutral 100 - |p|*100, rounded to 2 decimals; a Neutral confidence is in
\* [90, 100].
C7_Classification ==
    LexiconResult =>
        LET p == ScoredPolarity
            r == call.result
        IN  /\ p > Threshold =>
                r.sentiment = "Positive" /\ r.confidence = Round2(Min2(p, Unit))
            /\ p < -Threshold =>
                r.sentiment = "Negative" /\ r.confidence = Round2(Min2(-p, Unit))
            /\ (-Threshold <= p /\ p <= Threshold) =>
                /\ r.sentiment = "Neutral"
                /\ r.confidence = Round2(Unit - Abs(p))
                /\ 9000 <= r.confidence /\ r.confidence <= 10000

\* C7 witness: a text whose polarity is exactly 0.1 is Neutral with confidence 90
C7_Witness ==
    /\ LexiconResult
    /\ ScoredPolarity = Threshold
    /\ call.result.sentiment = "Neutral"
    /\ call.result.confidence = 9000

\* the backend-specific fields of a result
BackendFields(r) == DOMAIN r \cap {"polarity", "subjectivity", "score"}

\* confidence in range, the backend named, and the field set of that backend only
WellFormed(r) ==
    /\ "confidence" \in DOMAIN r
    /\ 0 <= r.confidence /\ r.confidence <= 10000
    /\ "model" \in DOMAIN r
    /\ r.model \in {"TextBlob", "DistilBERT"}
    /\ r.model = "TextBlob" => BackendFields(r) = {"polarity", "subjectivity"}
    /\ r.model = "DistilBERT" => BackendFields(r) = {"score"}

\* C8 as stated: every result of analyze, the one for an empty text included, has
\* its confidence in [0, 100], names the backend used and carries exactly that
\* backend's field set.
C8_Original ==
    (call.phase = "done" /\ call.via = "analyze_sentiment") => WellFormed(call.result)

\* C8 (amended): every result of analyze for a text with a word has its
\* confidence in [0, 100], names the backend used and carries exactly that
\* backend's field set; the result for a blank text has confidence 0 and the
\* empty-input marker, names no backend and carries no backend-specific field.
C8_ResultShape ==
    (call.phase = "done" /\ call.via = "analyze_sentiment") =>
        IF IsBlank(call.text)
        THEN /\ DOMAIN call.result = {"error", "sentiment", "confidence"}
             /\ call.result.confidence = 0
        ELSE WellFormed(call.result)

\* C8 witness: a pretrained result, with its score and without a polarity
C8_Witness ==
    /\ call.phase = "done"
    /\ call.via = "analyze_sentiment"
    /\ call.result.sentiment = "Negative"
    /\ "model" \in DOMAIN call.result
    /\ call.result.model = "DistilBERT"
    /\ BackendFields(call.result) = {"score"}

-----------------------------------------------------------------------------
(* Inputs of the boundary *)

\* 101 characters in two words: longer than the excerpt the history keeps
LongWord ==
    [i \in 1..(ExcerptLen + 1) |->
        IF i = 1 THEN "m" ELSE IF i = 2 THEN " " ELSE "x"]

\* a JSON body with a text and, when model # "", a model
Body(text, model, loadOK, out) ==
    [json |-> TRUE,
     fields |-> IF model = "" THEN {"text"} ELSE {"text", "model"},
     text |-> text, textIsStr |-> TRUE, model |-> model,
     loadOK |-> loadOK, out |-> out]

Raises == [ok |-> FALSE, label |-> "", score |-> 0]

Says(label, score) == [ok |-> TRUE, label |-> label, score |-> score]

\* Positive 63.33 from TextBlob, the text sent with whitespace around it and
\* under a model name the boundary does not know
ReqPositive == Body(<<" ", "g", " ", "g", " ", "o", "\n">>, "bert", TRUE, Raises)

\* asks for transformers; Negative 66.67 from the pretrained model when it is
\* there, else Negative 80 from TextBlob
ReqNegative ==
    Body(<<"b", " ", "b", " ", "t">>, "TRANSFORMERS", TRUE,
         Says("NEGATIVE", 66665))

\* a text longer than the excerpt, no model named: Neutral 90 from TextBlob
ReqLong == Body(LongWord, "", TRUE, Raises)

\* a whitespace-only text
ReqBlank == Body(<<" ", "\n">>, "transformers", TRUE, Says("POSITIVE", Unit))

\* an empty text
ReqEmpty == Body(<<>>, "", TRUE, Raises)

\* a body with a model and no text
ReqNoText ==
    [json |-> TRUE, fields |-> {"model"}, text |-> <<>>, textIsStr |-> TRUE,
     model |-> "textblob", loadOK |-> TRUE, out |-> Raises]

\* no JSON body
ReqNoJson ==
    [json |-> FALSE, fields |-> {}, text |-> <<>>, textIsStr |-> TRUE,
     model |-> "", loadOK |-> TRUE, out |-> Raises]

\* a text that is a number, not a str
ReqNumber ==
    [json |-> TRUE, fields |-> {"text"}, text |-> <<>>, textIsStr |-> FALSE,
     model |-> "", loadOK |-> TRUE, out |-> Raises]

\* the requests a run of Spec chooses from
Requests ==
    {ReqPositive, ReqNegative, ReqLong, ReqBlank, ReqEmpty, ReqNoText,
     ReqNoJson, ReqNumber}

\* the requests the workloads of SpecLong are made of
LongRunRequests == {ReqPositive, ReqNegative, ReqBlank}

\* the cyclic request patterns of SpecLong: every sequence of 1..MaxPattern
\* requests
Workloads ==
    UNION {[1..n -> LongRunRequests] : n \in 1..MaxPattern}

AbsentLimit == [kind |-> "absent", value |-> 0]

IntLimit(n) == [kind |-> "int", value |-> n]

\* the ?limit= arguments of GET /history: none, not a number, integers
LimitArgs ==
    {AbsentLimit, [kind |-> "text", value |-> 0]}
        \cup {IntLimit(n) : n \in {-1, 0, 2, MaxLimit + 1}}

\* the ?limit= arguments SpecLong sends
LongLimitArgs == {AbsentLimit, IntLimit(Capacity)}

-----------------------------------------------------------------------------
(* Spec: the boundary, one request at a time, every request chosen freely *)

Init ==
    /\ TRANSFORMERS_AVAILABLE \in BOOLEAN
    /\ analysis_history = <<>>
    /\ now = 0
    /\ workload = <<>>
    /\ sent = 0
    /\ resp = NoResp
    /\ recorded = <<>>
    /\ call = NoCall
    /\ model_loads = 0
    /\ threads = <<>>
    /\ reader = ReaderIdle

\* the whole handler of POST /analyze for the request req
Handle(req) ==
    LET o == analyze_handler(req, analysis_history, now)
    IN  /\ analysis_history' = o.history
        /\ resp' = [op |-> "analyze", status |-> o.status, body |-> o.body]
        /\ call' = o.call
        /\ recorded' = IF o.status = 200 THEN Append(recorded, o.entry)
                       ELSE recorded
        /\ now' = IF o.status = 200 THEN now + 1 ELSE now
        /\ model_loads' = IF o.status = 200 THEN model_loads + o.call.loads
                          ELSE model_loads
        /\ UNCHANGED <<TRANSFORMERS_AVAILABLE, workload, threads, reader>>

\* POST /analyze
Analyze ==
    /\ now < MaxRequests
    /\ \E req \in Requests : Handle(req)
    /\ sent' = sent

\* GET /history?limit=arg
History ==
    /\ \E arg \in LimitArgs : resp' = history_handler(arg, analysis_history)
    /\ UNCHANGED <<TRANSFORMERS_AVAILABLE, analysis_history, now, workload, sent,
                   recorded, call, model_loads, threads, reader>>

\* GET /stats
Stats ==
    /\ resp' = stats_handler(analysis_history)
    /\ UNCHANGED <<TRANSFORMERS_AVAILABLE, analysis_history, now, workload, sent,
                   recorded, call, model_loads, threads, reader>>

Next == Analyze \/ History \/ Stats

Spec == Init /\ [][Next]_vars

-----------------------------------------------------------------------------
(* SpecLong: the boundary, one request at a time, a client replaying a      *)
(* cyclic pattern of requests until the history has passed its capacity     *)

InitLong ==
    /\ TRANSFORMERS_AVAILABLE \in BOOLEAN
    /\ analysis_history = <<>>
    /\ now = 0
    /\ workload \in Workloads
    /\ sent = 0
    /\ resp = NoResp
    /\ recorded = <<>>
    /\ call = NoCall
    /\ model_loads = 0
    /\ threads = <<>>
    /\ reader = ReaderIdle

\* POST /analyze with the next request of the workload
AnalyzeNext ==
    /\ sent < LongRequests
    /\ Handle(workload[(sent % Len(workload)) + 1])
    /\ sent' = sent + 1

\* GET /history?limit=arg
HistoryLong ==
    /\ \E arg \in LongLimitArgs : resp' = history_handler(arg, analysis_history)
    /\ UNCHANGED <<TRANSFORMERS_AVAILABLE, analysis_history, now, workload, sent,
                   recorded, call, model_loads, threads, reader>>

NextLong == AnalyzeNext \/ HistoryLong \/ Stats

SpecLong == InitLong /\ [][NextLong]_vars

-----------------------------------------------------------------------------
(* SpecConc: the boundary under the threaded server (app.run serves every   *)
(* request in a thread of its own).  No lock guards analysis_history.  A     *)
(* step is one access to the list: append, len, pop(0), a slice, or one pass *)
(* of a sum(...) over it.  The interpreter can also switch threads inside a  *)
(* pass; those interleavings add outcomes to the ones here and remove none.  *)

\* the /analyze requests the concurrent clients send
ConcRequests == {ReqPositive, ReqNegative, ReqBlank}

\* the sizes of the history when the concurrent requests arrive
InitialSizes == {0, Capacity - 1, Capacity}

\* a history of n entries, appended by n earlier requests handled one at a time
Prefilled(n) ==
    [i \in 1..n |->
        analyze_handler(IF i % 2 = 1 THEN ReqPositive ELSE ReqNegative,
                        <<>>, i - 1).entry]

\* a thread that has not entered analyze()
Idle == [pc |-> "idle"]

\* the counts that describe one content of the history
CountsOf(history) ==
    [total |-> Len(history),
     positive |-> CountOf(history, "Positive"),
     negative |-> CountOf(history, "Negative"),
     neutral |-> CountOf(history, "Neutral")]

\* the reader after the history changed to history: a stats() under way has one
\* more content of the list it could be describing
Witnessing(history) ==
    IF reader.kind = "stats" /\ reader.pc # "done"
    THEN [reader EXCEPT !.contents = @ \cup {CountsOf(history)}]
    ELSE reader

InitConc ==
    /\ TRANSFORMERS_AVAILABLE = FALSE
    /\ \E n \in InitialSizes :
           /\ analysis_history = Prefilled(n)
           /\ recorded = Prefilled(n)
           /\ now = n
    /\ workload = <<>>
    /\ sent = 0
    /\ resp = NoResp
    /\ call = NoCall
    /\ model_loads = 0
    /\ threads = [t \in 1..MaxThreads |-> Idle]
    /\ reader = ReaderIdle

\* thread t leaves the part of analyze() before the append with the value o of
\* the handler: answered 400 or 500 it is done, else it holds the entry to append
Computed(t, o) ==
    /\ IF o.status = 200
       THEN /\ threads' = [threads EXCEPT
                              ![t] = [pc |-> "append", body |-> o.body,
                                      entry |-> o.entry]]
            /\ now' = now + 1
            /\ model_loads' = model_loads + o.call.loads
            /\ resp' = resp
       ELSE /\ threads' = [threads EXCEPT ![t] = [pc |-> "done"]]
            /\ resp' = [op |-> "analyze", status |-> o.status, body |-> o.body]
            /\ UNCHANGED <<now, model_loads>>
    /\ call' = o.call

\* analyze(), from the request to the timestamp: validation, the engine, the
\* result.  None of it reads analysis_history.
Compute(t) ==
    /\ threads[t].pc = "idle"
    /\ \E req \in ConcRequests : Computed(t, analyze_handler(req, <<>>, now))
    /\ UNCHANGED <<TRANSFORMERS_AVAILABLE, analysis_history, workload, sent,
                   recorded, reader>>

\* analyze(): analysis_history.append({...})
AppendEntry(t) ==
    /\ threads[t].pc = "append"
    /\ analysis_history' = Append(analysis_history, threads[t].entry)
    /\ recorded' = Append(recorded, threads[t].entry)
    /\ threads' = [threads EXCEPT ![t].pc = "check"]
    /\ reader' = Witnessing(analysis_history')
    /\ UNCHANGED <<TRANSFORMERS_AVAILABLE, now, workload, sent, resp, call,
                   model_loads>>

\* analyze(): if len(analysis_history) > 100; when it is not, the 200 is returned
CheckLength(t) ==
    /\ threads[t].pc = "check"
    /\ IF Len(analysis_history) > Capacity
       THEN /\ threads' = [threads EXCEPT ![t].pc = "pop"]
            /\ resp' = resp
       ELSE /\ threads' = [threads EXCEPT ![t].pc = "done"]
            /\ resp' = [op |-> "analyze", status |-> 200,
                        body |-> threads[t].body]
    /\ UNCHANGED <<TRANSFORMERS_AVAILABLE, analysis_history, now, workload, sent,
                   recorded, call, model_loads, reader>>

\* analyze(): analysis_history.pop(0), and the 200 is returned
PopOldest(t) ==
    /\ threads[t].pc = "pop"
    /\ analysis_history' = Tail(analysis_history)
    /\ threads' = [threads EXCEPT ![t].pc = "done"]
    /\ resp' = [op |-> "analyze", status |-> 200, body |-> threads[t].body]
    /\ reader' = Witnessing(analysis_history')
    /\ UNCHANGED <<TRANSFORMERS_AVAILABLE, now, workload, sent, recorded, call,
                   model_loads>>

\* history(): limit = min(request.args.get("limit", 50, type=int), 100), then
\* "count": len(analysis_history)
HistoryCount ==
    /\ reader.pc = "idle"
    /\ \E arg \in LongLimitArgs :
           reader' = [reader EXCEPT !.pc = "slice", !.kind = "history",
                                    !.arg = arg,
                                    !.count = Len(analysis_history)]
    /\ UNCHANGED <<TRANSFORMERS_AVAILABLE, analysis_history, now, workload, sent,
                   resp, recorded, call, model_loads, threads>>

\* history(): "history": analysis_history[-limit:], and the 200 is returned
HistorySlice ==
    /\ reader.pc = "slice"
    /\ resp' = [history_handler(reader.arg, analysis_history)
                   EXCEPT !.count = reader.count]
    /\ reader' = [reader EXCEPT !.pc = "done"]
    /\ UNCHANGED <<TRANSFORMERS_AVAILABLE, analysis_history, now, workload, sent,
                   recorded, call, model_loads, threads>>

\* stats(): if not analysis_history, with its return of the all-zero stats
StatsCheck ==
    /\ reader.pc = "idle"
    /\ IF analysis_history = <<>>
       THEN /\ resp' = stats_handler(analysis_history)
            /\ reader' = [reader EXCEPT
                             !.pc = "done", !.kind = "stats",
                             !.contents = {CountsOf(analysis_history)}]
       ELSE /\ resp' = resp
            /\ reader' = [reader EXCEPT
                             !.pc = "total", !.kind = "stats",
                             !.contents = {CountsOf(analysis_history)}]
    /\ UNCHANGED <<TRANSFORMERS_AVAILABLE, analysis_history, now, workload, sent,
                   recorded, call, model_loads, threads>>

\* stats(): total = len(analysis_history)
StatsTotal ==
    /\ reader.pc = "total"
    /\ reader' = [reader EXCEPT !.pc = "Positive",
                                !.total = Len(analysis_history)]
    /\ UNCHANGED <<TRANSFORMERS_AVAILABLE, analysis_history, now, workload, sent,
                   resp, recorded, call, model_loads, threads>>

\* stats(): positive = sum(...), then negative = sum(...), then neutral =
\* sum(...), each a pass of its own over analysis_history
StatsPass ==
    /\ reader.pc \in {"Positive", "Negative", "Neutral"}
    /\ reader' =
           CASE reader.pc = "Positive" ->
                    [reader EXCEPT
                        !.pc = "Negative",
                        !.positive = CountOf(analysis_history, "Positive")]
             [] reader.pc = "Negative" ->
                    [reader EXCEPT
                        !.pc = "Neutral",
                        !.negative = CountOf(analysis_history, "Negative")]
             [] OTHER ->
                    [reader EXCEPT
                        !.pc = "average",
                        !.neutral = CountOf(analysis_history, "Neutral")]
    /\ UNCHANGED <<TRANSFORMERS_AVAILABLE, analysis_history, now, workload, sent,
                   resp, recorded, call, model_loads, threads>>

\* stats(): avg_confidence = sum(...) / total, and the 200 is returned
StatsAverage ==
    /\ reader.pc = "average"
    /\ resp' = [op |-> "stats", status |-> 200, divisions |-> 4,
                body |-> [stats |->
                    StatsFrom(reader.total, reader.positive, reader.negative,
                              reader.neutral, SumConfidence(analysis_history))]]
    /\ reader' = [reader EXCEPT !.pc = "done"]
    /\ UNCHANGED <<TRANSFORMERS_AVAILABLE, analysis_history, now, workload, sent,
                   recorded, call, model_loads, threads>>

NextConc ==
    \/ \E t \in 1..MaxThreads : Compute(t)
    \/ \E t \in 1..MaxThreads : AppendEntry(t)
    \/ \E t \in 1..MaxThreads : CheckLength(t)
    \/ \E t \in 1..MaxThreads : PopOldest(t)
    \/ HistoryCount
    \/ HistorySlice
    \/ StatsCheck
    \/ StatsTotal
    \/ StatsPass
    \/ StatsAverage

SpecConc == InitConc /\ [][NextConc]_vars

-----------------------------------------------------------------------------
(* Properties of the history, checked under SpecLong *)

\* seq back to front
Reverse(seq) == [i \in 1..Len(seq) |-> seq[Len(seq) + 1 - i]]

\* the last n elements of seq
LastOf(seq, n) == SubSeq(seq, Len(seq) - n + 1, Len(seq))

\* C1: with the requests handled one at a time from an empty history, the
\* history holds min(recorded, 100) entries after every request; up to 100
\* recorded entries it holds them all, and after the 101st it holds the 100
\* entries recorded after the first, in order: only the oldest is gone.
C1_CapacityFIFO ==
    /\ Len(analysis_history) = Min2(Len(recorded), Capacity)
    /\ Len(recorded) <= Capacity => analysis_history = recorded
    /\ Len(recorded) = Capacity + 1 => analysis_history = Tail(recorded)

\* C1 witness: the request that recorded the 101st entry has just been answered
C1_Witness ==
    /\ Len(recorded) = Capacity + 1
    /\ resp.op = "analyze"
    /\ resp.status = 200
    /\ Len(analysis_history) = Capacity
    /\ analysis_history[1] = recorded[2]

\* GET /history?limit=100 has just been answered, more than 100 entries recorded
FullHistoryRead ==
    /\ resp.op = "history"
    /\ resp.arg = IntLimit(Capacity)
    /\ Len(recorded) > Capacity

\* C2 as stated: after capacity + k recorded entries, the history query with
\* limit = capacity returns the last capacity recorded entries, most recent first.
C2_Original ==
    FullHistoryRead => resp.history = Reverse(LastOf(recorded, Capacity))

\* C2 (amended): after capacity + k recorded entries (k > 0), the history query
\* with limit = capacity returns exactly the last capacity recorded entries in
\* chronological order (oldest first, most recent last), and none of the first k.
C2_HistoryFIFO ==
    FullHistoryRead =>
        /\ resp.history = LastOf(recorded, Capacity)
        /\ \A i \in 1..(Len(recorded) - Capacity) :
               \A j \in 1..Len(resp.history) : resp.history[j] # recorded[i]

\* C2 witness: the query answered after 103 recorded entries, the newest one last
C2_Witness ==
    /\ FullHistoryRead
    /\ Len(recorded) = Capacity + 3
    /\ Len(resp.history) = Capacity
    /\ resp.history[Capacity] = recorded[Capacity + 3]
    /\ resp.history[1] = recorded[4]

-----------------------------------------------------------------------------
(* Properties of the queries, checked under Spec *)

\* limit clamped to [0, 100]
Clamp(limit) == IF limit < 0 THEN 0 ELSE Min2(limit, MaxLimit)

\* C3 as stated: the history query returns min(L, size) entries, L the limit
\* clamped to [0, 100]; limit = 0 returns none, a negative limit counts as 0.
C3_Original ==
    resp.op = "history" =>
        Len(resp.history) = Min2(Clamp(LimitOf(resp.arg)), Len(analysis_history))

\* GET /stats has just been answered for a history with entries
StatsRead == resp.op = "stats" /\ analysis_history # <<>>

\* C9: for every non-empty history recorded through /analyze, the three
\* percentages of the statistics (each rounded to 2 decimals) sum to 100 within
\* 0.01, and the three counts sum to the total, the size of the history.
C9_StatsSum ==
    StatsRead =>
        LET st == resp.body.stats
            sum == st.positive_percentage + st.negative_percentage
                       + st.neutral_percentage
        IN  /\ resp.status = 200
            /\ st.total = Len(analysis_history)
            /\ st.positive + st.negative + st.neutral = st.total
            /\ 100 * 100 - 1 <= sum /\ sum <= 100 * 100 + 1

\* C9 witness: one entry of each sentiment, 33.33 + 33.33 + 33.33 = 99.99
C9_Witness ==
    /\ StatsRead
    /\ resp.body.stats.total = 3
    /\ resp.body.stats.positive = 1
    /\ resp.body.stats.negative = 1
    /\ resp.body.stats.positive_percentage + resp.body.stats.negative_percentage
           + resp.body.stats.neutral_percentage = 9999

\* C10: with an empty history, the statistics answer 200 with total = positive =
\* negative = neutral = 0, and no division is made.
C10_EmptyStats ==
    (resp.op = "stats" /\ analysis_history = <<>>) =>
        /\ resp.status = 200
        /\ resp.divisions = 0
        /\ resp.body.stats =
               [total |-> 0, positive |-> 0, negative |-> 0, neutral |-> 0]

\* C10 witness: the statistics answered before any analysis was recorded
C10_Witness ==
    /\ resp.op = "stats"
    /\ analysis_history = <<>>
    /\ recorded = <<>>
    /\ resp.status = 200

-----------------------------------------------------------------------------
(* Properties of POST /analyze, checked under Spec *)

\* the request carries no text to analyze: no body, no text field, or a text
\* that is empty or all whitespace
TextAbsent(req) ==
    \/ ~req.json
    \/ "text" \notin req.fields
    \/ req.textIsStr /\ \A i \in 1..Len(req.text) : req.text[i] \in Whitespace

RecordedOne ==
    LET before == analysis_history
        after == analysis_history'
        dropped == Len(before) + 1 - Len(after)
        entry == after[Len(after)]
        text == call'.text
    IN  /\ Len(after) = Min2(Len(before) + 1, Capacity)
        /\ \A i \in 1..(Len(after) - 1) : after[i] = before[i + dropped]
        /\ text = resp'.body.text
        /\ entry.sentiment = resp'.body.sentiment
        /\ entry.confidence = resp'.body.confidence
        /\ Len(entry.text) = Min2(ExcerptLen, Len(text))
        /\ \A i \in 1..Len(entry.text) : entry.text[i] = text[i]

\* C12: an /analyze request records exactly one new entry if and only if it is
\* answered 200; answered 400 or 500 it leaves the history as it was.  The entry
\* has the result's sentiment and confidence and, as its text, the first
\* min(100, length) characters of the analyzed text.
C12_RecordedIffSuccess ==
    [][resp'.op = "analyze" =>
          IF resp'.status = 200
          THEN RecordedOne
          ELSE analysis_history' = analysis_history]_vars

\* C12 witness: a text of more than 100 characters has been analyzed and its
\* entry, the last of the history, keeps 100 of them
C12_Witness ==
    /\ resp.op = "analyze"
    /\ resp.status = 200
    /\ Len(resp.body.text) > ExcerptLen
    /\ analysis_history # <<>>
    /\ Len(analysis_history[Len(analysis_history)].text) = ExcerptLen
    /\ Len(analysis_history) > 1

-----------------------------------------------------------------------------
(* Properties of the model load, checked under Spec *)

\* C15 as stated: in one process the pretrained model is loaded at most once,
\* however many requests ask for the pretrained backend, and no analyze request
\* makes a load.
C15_Original ==
    /\ model_loads <= 1
    /\ call.phase = "done" => call.loads = 0

-----------------------------------------------------------------------------
(* Properties of the fallback and of the reported polarity, checked under   *)
(* SpecEngine                                                               *)

\* C16 as stated: when analyze falls back to the Lexicon scorer after the call
\* of the pretrained model failed, the result is the one analyze returns for the
\* same text with the Lexicon backend requested, for every text, the texts of
\* more than 512 words included.
C16_Original ==
    (InvocationFailed /\ call.via = "analyze_sentiment") =>
        call.result =
            analyze_sentiment(call.text, "textblob", call.loadOK, call.out).result

\* the threshold rule on a polarity p, 0.1 being limit in the units of p
ThresholdRule(p, limit) ==
    IF p > limit THEN "Positive" ELSE IF p < -limit THEN "Negative" ELSE "Neutral"

\* C18 as stated: in every Lexicon result the sentiment is the threshold rule
\* applied to the reported polarity (rounded to 3 decimals, here in 1e-3).
C18_Original ==
    LexiconResult =>
        call.result.sentiment = ThresholdRule(call.result.polarity, 100)

\* C18 (amended): in every Lexicon result the sentiment is the threshold rule
\* applied to the unrounded polarity p; the reported polarity q is p rounded to
\* 3 decimals (|q - p| <= 0.0005), so Positive has q >= 0.1, Negative has
\* q <= -0.1, Neutral has -0.1 <= q <= 0.1, and q > 0.1 is Positive, q < -0.1
\* is Negative.
C18_ReportedPolarity ==
    LexiconResult =>
        LET p == ScoredPolarity
            q == call.result.polarity
            sentiment == call.result.sentiment
        IN  /\ sentiment = ThresholdRule(p, Threshold)
            /\ Abs(q * 100 - p) <= 50
            /\ sentiment = "Positive" => q >= 100
            /\ sentiment = "Negative" => q <= -100
            /\ sentiment = "Neutral" => (-100 <= q /\ q <= 100)
            /\ q > 100 => sentiment = "Positive"
            /\ q < -100 => sentiment = "Negative"

\* C18 witness: a polarity of 0.1004 is Positive and is reported as 0.1
C18_Witness ==
    /\ LexiconResult
    /\ ScoredPolarity = 10040
    /\ call.result.sentiment = "Positive"
    /\ call.result.polarity = 100

-----------------------------------------------------------------------------
(* Properties of the history under concurrent requests, checked under       *)
(* SpecConc                                                                  *)

\* C13 as stated: with /analyze requests running concurrently, no history or
\* statistics read observes a history of more than 100 entries: neither the
\* count of history() nor the total of stats() is ever above 100.
C13_Original ==
    /\ reader.count <= Capacity
    /\ reader.total <= Capacity

\* C14 as stated: a statistics call running concurrently with /analyze requests
\* reports positive + negative + neutral = total, and the four numbers describe
\* one content the history had at one point in time during the call.
C14_Original ==
    (reader.kind = "stats" /\ reader.pc \in {"average", "done"}) =>
        /\ reader.positive + reader.negative + reader.neutral = reader.total
        /\ [total |-> reader.total, positive |-> reader.positive,
            negative |-> reader.negative, neutral |-> reader.neutral]
               \in reader.contents

\* every /analyze request in flight has been answered
AllAnswered == \A t \in 1..MaxThreads : threads[t].pc = "done"

\* C17 as stated: once all concurrent /analyze requests have completed, the
\* history has min(100, size before + successful requests) entries, and they are
\* the most recently appended entries in the order of their appends.  (recorded
\* is the history before, followed by every append.)
C17_Original ==
    AllAnswered =>
        /\ Len(analysis_history) = Min2(Capacity, Len(recorded))
        /\ analysis_history = LastOf(recorded, Min2(Capacity, Len(recorded)))

====
